---------------------------- MODULE Spec2Model ----------------------------
(***************************************************************************)
(* Model of the two Streamlit outreach applications:                       *)
(*   src/streamlit_app.py   row-by-row sender (review, send or skip)       *)
(*   src/streamlit_app2.py  bulk sender (send now or schedule), gated by   *)
(*                          OUTREACH_PASSWORD                              *)
(* Text is modelled as a sequence of characters (one-character strings),   *)
(* so that splitlines, strip, lower and the "@" test are computed.         *)
(***************************************************************************)
EXTENDS Integers, Sequences, FiniteSets, TLC

VARIABLES
    call,       \* SpecCalls: the function call under test and its result
    session,    \* row app: st.session_state
    uploader,   \* row app: the file held by st.file_uploader (or NoFile)
    sidebar,    \* row app: the sidebar "From address" widget
    run,        \* row app: what the last script run did
    last_sent,  \* row app (history): the highest row index the Mailer has
                \* sent successfully since the sheet was parsed, -1 for none
    OUTREACH_PASSWORD,  \* bulk app: the configured secret (module constant)
    config,     \* bulk app: the SMTP_* settings of the secret store
    bulk_session,   \* bulk app: st.session_state
    bulk_uploader,  \* bulk app: the file held by st.file_uploader
    now,        \* bulk app: the server's clock
    jobs,       \* bulk app: the worker threads that have not finished
    bulk_run    \* bulk app: what the last step (script run, worker, clock) did

rowVars == <<session, uploader, sidebar, run, last_sent>>
bulkVars == <<OUTREACH_PASSWORD, config, bulk_session, bulk_uploader, now,
              jobs, bulk_run>>
vars == <<call, rowVars, bulkVars>>

(***************************************************************************)
(* Bounds                                                                  *)
(***************************************************************************)
MaxChunks == 4      \* a template is a concatenation of at most MaxChunks chunks
MaxRowChunks == 2   \* same, for the template cell of a generated row
MaxRows == 3        \* rows of a generated spreadsheet
MaxSheetRows == 3   \* rows of the longest sheet uploaded to the row app
MaxTime == 2        \* the clock runs from 0 to MaxTime
MaxJobs == 1        \* worker threads alive at a time

(***************************************************************************)
(* Text                                                                    *)
(***************************************************************************)
Str1(c) == <<c>>
sEmpty == <<>>
sSubjectColon == <<"S", "u", "b", "j", "e", "c", "t", ":">>
sSUBJECTColon == <<"S", "U", "B", "J", "E", "C", "T", ":">>
sSpB == <<" ", "B">>
sHi == <<"h", "i">>
sNan == <<"n", "a", "n">>

\* str.strip() with no argument removes these (those of them the model uses)
WhiteSpace == {" ", "\t", "\n", "\r"}
\* str.splitlines() breaks lines at these; "\r\n" counts as one break
LineBreaks == {"\n", "\r"}

LowerChar(c) ==
    CASE c = "S" -> "s"
      [] c = "U" -> "u"
      [] c = "B" -> "b"
      [] c = "J" -> "j"
      [] c = "E" -> "e"
      [] c = "C" -> "c"
      [] c = "T" -> "t"
      [] c = "A" -> "a"
      [] OTHER -> c

Lower(s) == [i \in 1..Len(s) |-> LowerChar(s[i])]

StartsWith(s, p) ==
    /\ Len(s) >= Len(p)
    /\ SubSeq(s, 1, Len(p)) = p

Contains(s, c) == \E i \in 1..Len(s) : s[i] = c

IsBlank(s) == \A i \in 1..Len(s) : s[i] \in WhiteSpace

\* s.strip()
Strip(s) ==
    IF IsBlank(s) THEN <<>>
    ELSE LET first == CHOOSE i \in 1..Len(s) :
                          /\ s[i] \notin WhiteSpace
                          /\ \A j \in 1..(i - 1) : s[j] \in WhiteSpace
             last == CHOOSE i \in 1..Len(s) :
                          /\ s[i] \notin WhiteSpace
                          /\ \A j \in (i + 1)..Len(s) : s[j] \in WhiteSpace
         IN SubSeq(s, first, last)

\* s.split(sep, 1)[1]: what follows the first occurrence of sep
\* (only used where sep occurs in s)
AfterFirst(s, sep) ==
    LET k == CHOOSE i \in 1..Len(s) :
                 /\ s[i] = sep
                 /\ \A j \in 1..(i - 1) : s[j] # sep
    IN SubSeq(s, k + 1, Len(s))

RECURSIVE SplitFrom(_, _, _, _)
SplitFrom(s, i, cur, acc) ==
    IF i > Len(s)
    THEN IF cur = <<>> THEN acc ELSE Append(acc, cur)
    ELSE IF s[i] = "\r" /\ i < Len(s) /\ s[i + 1] = "\n"
    THEN SplitFrom(s, i + 2, <<>>, Append(acc, cur))
    ELSE IF s[i] \in LineBreaks
    THEN SplitFrom(s, i + 1, <<>>, Append(acc, cur))
    ELSE SplitFrom(s, i + 1, Append(cur, s[i]), acc)

\* s.splitlines(): no empty last line after a final line break
SplitLines(s) == SplitFrom(s, 1, <<>>, <<>>)

RECURSIVE JoinNl(_)
\* "\n".join(lines)
JoinNl(lines) ==
    IF lines = <<>> THEN <<>>
    ELSE IF Len(lines) = 1 THEN lines[1]
    ELSE lines[1] \o <<"\n">> \o JoinNl(Tail(lines))

RECURSIVE Concat(_)
Concat(ss) == IF ss = <<>> THEN <<>> ELSE ss[1] \o Concat(Tail(ss))

(***************************************************************************)
(* parse_template (the Template Splitter)                                  *)
(***************************************************************************)
RECURSIVE SkipBlank(_, _)
\* while body_start < len(lines) and not lines[body_start].strip()
\* (k is body_start + 1: sequences are 1-based here)
SkipBlank(lines, k) ==
    IF k <= Len(lines) /\ Strip(lines[k]) = <<>>
    THEN SkipBlank(lines, k + 1)
    ELSE k

parse_template(template) ==
    LET lines == SplitLines(template)
    IN IF lines # <<>> /\ StartsWith(Lower(lines[1]), Lower(sSubjectColon))
       THEN LET k == SkipBlank(lines, 2)
            IN <<Strip(AfterFirst(lines[1], ":")),
                 JoinNl(SubSeq(lines, k, Len(lines)))>>
       ELSE <<sEmpty, JoinNl(lines)>>

(***************************************************************************)
(* Spreadsheet cells and rows                                              *)
(***************************************************************************)
\* A cell as pandas hands it over: text, NaN (an empty cell), an integer, or
\* no such column.  s is the text, or str() of the number.
StrCell(s) == [t |-> "str", s |-> s]
NanCell == [t |-> "nan", s |-> sNan]
IntCell(s) == [t |-> "int", s |-> s]
AbsentCell == [t |-> "absent", s |-> sEmpty]

\* bool(x) of a cell value; an absent column reads as the default ""
Truthy(c) ==
    CASE c.t = "str" -> c.s # <<>>
      [] c.t = "nan" -> TRUE
      [] c.t = "int" -> c.s # <<"0">>
      [] OTHER -> FALSE

\* str(row.get(col, "") or "")
GetText(c) == IF Truthy(c) THEN c.s ELSE sEmpty

FallbackSubject ==
    <<"Intro from Sebastian - independent data science consultant">>

\* the mutant of _derive_subject_for_row: the template's subject is preferred
\* to the explicit Subject column
_derive_subject_template_first(row) ==
    LET subj == parse_template(GetText(row.Template))[1]
    IN IF Strip(subj) # <<>>
       THEN Strip(subj)
       ELSE IF row.Subject.t = "str" /\ Strip(row.Subject.s) # <<>>
       THEN Strip(row.Subject.s)
       ELSE FallbackSubject

_derive_subject_for_row(row) ==
    IF row.Subject.t = "str" /\ Strip(row.Subject.s) # <<>>
    THEN Strip(row.Subject.s)
    ELSE LET subj == parse_template(GetText(row.Template))[1]
         IN IF Strip(subj) # <<>>
            THEN Strip(subj)
            ELSE FallbackSubject

(***************************************************************************)
(* send_email (the Mailer)                                                 *)
(***************************************************************************)
\* What the outside world does during one call:
\*   resume  "present" | "absent" | "unreadable" (exists, open() raises)
\*   failAt  the SMTP operation that raises, by position; 0 when none does
Env(resume, failAt) == [resume |-> resume, failAt |-> failAt]

\* server operations of the STARTTLS branch and of the SMTP_SSL branch; with
\* an empty host the constructor opens no connection
OpsStartTls == <<"connect", "ehlo", "starttls", "ehlo", "login", "send_message">>
OpsSsl == <<"connect_ssl", "login", "send_message">>

Ops(creds) ==
    LET all == IF creds.use_starttls THEN OpsStartTls ELSE OpsSsl
    IN IF creds.smtp_host = <<>> THEN Tail(all) ELSE all

NoMsg == [tag |-> "none", to |-> <<>>, op |-> "none"]
SentMsg(to) == [tag |-> "Email sent to", to |-> to, op |-> "none"]
ResumeNotFoundMsg == [tag |-> "Resume file not found in app folder", to |-> <<>>, op |-> "none"]
ExcMsg(op) == [tag |-> "exception", to |-> <<>>, op |-> op]

HasLineBreak(s) == \E i \in 1..Len(s) : s[i] \in LineBreaks

\* attached: msg.add_attachment ran; transmitted: send_message returned
Returned(ok, msg, net, attached, transmitted) ==
    [kind |-> "return", ok |-> ok, msg |-> msg, net |-> net,
     attached |-> attached, transmitted |-> transmitted]
Raised(what, attached) ==
    [kind |-> "raise", ok |-> FALSE, msg |-> ExcMsg(what), net |-> <<>>,
     attached |-> attached, transmitted |-> FALSE]

\* the try block: the operations run in order until one raises; leaving the
\* "with" block sends QUIT (position Len(ops) + 1) when the block was entered
SmtpSession(to_email, creds, env, attached) ==
    LET ops == Ops(creds)
        n == Len(ops)
        f == env.failAt
        entered == ~(f = 1 /\ creds.smtp_host # <<>>)
    IN IF f \in 1..n
       THEN Returned(FALSE, ExcMsg(ops[f]),
                     SubSeq(ops, 1, f) \o (IF entered THEN <<"quit">> ELSE <<>>),
                     attached, FALSE)
       ELSE IF f = n + 1
       THEN Returned(FALSE, ExcMsg("quit"), ops \o <<"quit">>, attached, TRUE)
       ELSE Returned(TRUE, SentMsg(to_email), ops \o <<"quit">>, attached, TRUE)

\* the header assignments msg["From"], msg["To"], msg["Subject"] raise
\* ValueError on a value holding a line break
HeadersRaise(to_email, subject, creds) ==
    \/ HasLineBreak(creds.sender_email)
    \/ HasLineBreak(to_email)
    \/ HasLineBreak(subject)

send_email(to_email, subject, body, creds, env) ==
    IF HeadersRaise(to_email, subject, creds)
    THEN Raised("ValueError", FALSE)
    ELSE IF env.resume = "absent"
    THEN Returned(FALSE, ResumeNotFoundMsg, <<>>, FALSE, FALSE)
    ELSE IF env.resume = "unreadable"
    THEN Raised("OSError", FALSE)
    ELSE SmtpSession(to_email, creds, env, TRUE)

(***************************************************************************)
(* send_bulk_emails (the Bulk Dispatcher)                                  *)
(***************************************************************************)
\* str(raw_email).strip()
ToEmail(row, email_column) == Strip(row[email_column].s)

InvalidEmail(to_email) == to_email = <<>> \/ ~Contains(to_email, "@")

InvalidError(pos, to_email) ==
    [row |-> pos, kind |-> "invalid email", addr |-> to_email, msg |-> NoMsg]
SendError(pos, to_email, msg) ==
    [row |-> pos, kind |-> "send failed", addr |-> to_email, msg |-> msg]

BulkStart ==
    [kind |-> "running", success_count |-> 0, failure_count |-> 0,
     errors |-> <<>>, log |-> <<>>, visited |-> 0]

\* one pass of the loop body, for the row at 1-based position pos
BulkStep(acc, row, pos, email_column, subject, body, creds, env) ==
    LET to_email == ToEmail(row, email_column)
    IN IF InvalidEmail(to_email)
       THEN [acc EXCEPT !.failure_count = @ + 1,
                        !.errors = Append(@, InvalidError(pos, to_email)),
                        !.visited = pos]
       ELSE LET res == send_email(to_email, subject, body, creds, env)
                logged == Append(acc.log, [row |-> pos, to |-> to_email, res |-> res])
            IN IF res.kind = "raise"
               THEN [acc EXCEPT !.kind = "raise", !.log = logged, !.visited = pos]
               ELSE IF res.ok
               THEN [acc EXCEPT !.success_count = @ + 1, !.log = logged,
                                !.visited = pos]
               ELSE [acc EXCEPT !.failure_count = @ + 1,
                                !.errors = Append(@, SendError(pos, to_email, res.msg)),
                                !.log = logged, !.visited = pos]

RECURSIVE BulkLoop(_, _, _, _, _, _, _, _)
BulkLoop(acc, df, pos, email_column, subject, body, creds, envs) ==
    IF pos > Len(df) \/ acc.kind = "raise"
    THEN acc
    ELSE BulkLoop(BulkStep(acc, df[pos], pos, email_column, subject, body,
                           creds, envs[pos]),
                  df, pos + 1, email_column, subject, body, creds, envs)

send_bulk_emails(df, email_column, subject, body, creds, envs) ==
    LET end == BulkLoop(BulkStart, df, 1, email_column, subject, body, creds, envs)
    IN IF end.kind = "raise" THEN end ELSE [end EXCEPT !.kind = "return"]

(***************************************************************************)
(* Inputs of the function calls                                            *)
(***************************************************************************)
Chunks == {sSubjectColon, sSUBJECTColon, sSpB, sHi,
           Str1(" "), Str1("\n"), Str1("\r"), Str1(":")}

RECURSIVE ChunkSeqs(_)
ChunkSeqs(n) ==
    IF n = 0 THEN {<<>>}
    ELSE LET shorter == ChunkSeqs(n - 1)
         IN shorter \cup {Append(q, c) : q \in shorter, c \in Chunks}

Templates == {Concat(q) : q \in ChunkSeqs(MaxChunks)}
RowTemplates == {Concat(q) : q \in ChunkSeqs(MaxRowChunks)}

SubjectCells == {AbsentCell, NanCell, IntCell(<<"7">>), StrCell(sEmpty),
                 StrCell(Str1(" ")), StrCell(Str1("A")),
                 StrCell(<<" ", "A", " ">>)}
TemplateCells == {AbsentCell, NanCell, IntCell(<<"0">>)}
                     \cup {StrCell(t) : t \in RowTemplates}

sAddrA == <<"a", "@", "x">>
sAddrC == <<"c", "@", "x">>
sAddrSplit == <<"a", "@", "\n", "x">>
sBad == <<"b", "a", "d">>
sSender == <<"m", "e", "@", "x">>
sSubj == <<"S">>
sBody == <<"b", "o", "d", "y">>
sHost == <<"h">>
sUser == <<"u">>
sPass == <<"p">>

\* the email column of generated rows: a plain address, an address with
\* spaces around it, text without "@", blank text, an empty cell (NaN), and
\* an address with a line break inside
EmailCells == {StrCell(sAddrA), StrCell(<<" ">> \o sAddrC \o <<" ">>),
               StrCell(sBad), StrCell(Str1(" ")), NanCell, StrCell(sAddrSplit)}

RECURSIVE DfsUpTo(_)
DfsUpTo(n) ==
    IF n = 0 THEN {<<>>}
    ELSE LET shorter == DfsUpTo(n - 1)
         IN shorter \cup {Append(d, [Email |-> c]) : d \in shorter, c \in EmailCells}

Creds(host, starttls, sender) ==
    [smtp_host |-> host, smtp_port |-> 587, smtp_user |-> sUser,
     smtp_pass |-> sPass, sender_email |-> sender, use_starttls |-> starttls]

ResumeStates == {"present", "absent", "unreadable"}
MailerEnvs == {Env(r, f) : r \in ResumeStates, f \in 0..(Len(OpsStartTls) + 1)}
\* per row of a bulk run: all goes well, login is refused, the resume is gone
BulkEnvs == {Env("present", 0), Env("present", 5), Env("absent", 0)}

NoCall == [fn |-> "none"]

(***************************************************************************)
(* SpecCalls: each function applied to inputs drawn from the sets above    *)
(***************************************************************************)
CallParseTemplate ==
    /\ call = NoCall
    /\ \E t \in Templates :
           call' = [fn |-> "parse_template", template |-> t,
                    result |-> parse_template(t)]
    /\ UNCHANGED <<rowVars, bulkVars>>

CallDeriveSubject ==
    /\ call = NoCall
    /\ \E sc \in SubjectCells, tc \in TemplateCells :
           LET row == [Subject |-> sc, Template |-> tc]
           IN call' = [fn |-> "_derive_subject_for_row", row |-> row,
                       result |-> _derive_subject_for_row(row)]
    /\ UNCHANGED <<rowVars, bulkVars>>

CallSendEmail ==
    /\ call = NoCall
    /\ \E to \in {sAddrA, sAddrSplit}, subject \in {sSubj, <<"A", "\n", "B">>},
          host \in {sEmpty, sHost}, starttls \in BOOLEAN, env \in MailerEnvs :
           LET creds == Creds(host, starttls, sSender)
           IN call' = [fn |-> "send_email", to_email |-> to, subject |-> subject,
                       creds |-> creds, env |-> env,
                       result |-> send_email(to, subject, sBody, creds, env)]
    /\ UNCHANGED <<rowVars, bulkVars>>

CallSendBulk ==
    /\ call = NoCall
    /\ \E df \in DfsUpTo(MaxRows) :
          \E envs \in [1..Len(df) -> BulkEnvs] :
             call' = [fn |-> "send_bulk_emails", df |-> df, envs |-> envs,
                      result |-> send_bulk_emails(df, "Email", sSubj, sBody,
                                                  Creds(sHost, TRUE, sSender), envs)]
    /\ UNCHANGED <<rowVars, bulkVars>>

Return ==
    /\ call # NoCall
    /\ call' = NoCall
    /\ UNCHANGED <<rowVars, bulkVars>>

(***************************************************************************)
(* Row-by-row application (src/streamlit_app.py)                           *)
(***************************************************************************)
NoFile == [present |-> FALSE, name |-> "", readable |-> FALSE, df |-> <<>>]
File(name, df) == [present |-> TRUE, name |-> name, readable |-> TRUE, df |-> df]
BrokenFile(name) == [present |-> TRUE, name |-> name, readable |-> FALSE, df |-> <<>>]

\* st.session_state; last_loaded_idx = -1 stands for "key not set", and
\* has_fields = FALSE for the keys to, subject and body being popped
NoSession ==
    [has_df |-> FALSE, df |-> <<>>, uploaded_filename |-> "", row_idx |-> 0,
     has_fields |-> FALSE, to |-> sEmpty, subject |-> sEmpty, body |-> sEmpty,
     last_loaded_idx |-> -1]

NoMailerCall == [called |-> FALSE, to |-> sEmpty, subject |-> sEmpty,
                 kind |-> "none", ok |-> FALSE]
MailerCall(to, subject, res) ==
    [called |-> TRUE, to |-> to, subject |-> subject, kind |-> res.kind,
     ok |-> res.ok]

\* what one script run (with the rerun it asks for) did
RunRecord(event, screen, error, mailer, loaded, derived, advanced) ==
    [event |-> event, screen |-> screen, error |-> error, mailer |-> mailer,
     loaded |-> loaded, derived |-> derived, advanced |-> advanced]

NoRun == RunRecord("start", "none", "none", NoMailerCall, FALSE, 0, FALSE)

\* _ensure_df_loaded, for a file pd.read_excel can read
_ensure_df_loaded(sess, file) ==
    IF ~file.present THEN sess
    ELSE IF ~sess.has_df \/ sess.uploaded_filename # file.name
    THEN [sess EXCEPT !.has_df = TRUE, !.df = file.df,
                      !.uploaded_filename = file.name, !.row_idx = 0,
                      !.has_fields = FALSE, !.to = sEmpty, !.subject = sEmpty,
                      !.body = sEmpty, !.last_loaded_idx = -1]
    ELSE sess

\* does _ensure_df_loaded call pd.read_excel on this run?
Parses(sess, file) ==
    file.present /\ (~sess.has_df \/ sess.uploaded_filename # file.name)

preload_fields(sess, idx) ==
    LET row == sess.df[idx + 1]
    IN [sess EXCEPT !.has_fields = TRUE,
                    !.to = GetText(row.Email),
                    !.subject = _derive_subject_for_row(row),
                    !.body = GetText(row.Template)]

\* the mutant of advance_to_next_row: the field keys are popped but the
\* index is left alone
advance_without_increment(sess) ==
    [sess EXCEPT !.has_fields = FALSE, !.to = sEmpty,
                 !.subject = sEmpty, !.body = sEmpty]

\* advance_to_next_row, up to its _rerun()
advance_to_next_row(sess) ==
    [sess EXCEPT !.row_idx = @ + 1, !.has_fields = FALSE, !.to = sEmpty,
                 !.subject = sEmpty, !.body = sEmpty]

\* the mutant of NeedsPreload: the fields are loaded from the row on every run
NeedsPreloadAlways(sess) == TRUE

\* line 271: st.session_state.get("last_loaded_idx") != idx
NeedsPreload(sess) == sess.last_loaded_idx # sess.row_idx

\* the mutant of ValidAddress: only emptiness is tested
ValidAddressNonEmpty(s) == s # <<>>

\* lines 291 and 293: not (not x or "@" not in x)
ValidAddress(s) == s # <<>> /\ Contains(s, "@")

\* line 258: idx >= n
IsComplete(sess) == sess.row_idx >= Len(sess.df)

PageResult(sess, screen, loaded, derived) ==
    [sess |-> sess, screen |-> screen, loaded |-> loaded, derived |-> derived]

\* main() from line 235 down to the widgets, s1 being the session state that
\* _ensure_df_loaded left: the screen the run ends on when it returns before
\* drawing the row's form, and whether preload_fields ran
PageLoaded(s1, loaded) ==
    IF ~s1.has_df THEN PageResult(s1, "idle", loaded, FALSE)
    ELSE IF Len(s1.df) = 0 THEN PageResult(s1, "empty", loaded, FALSE)
    ELSE IF IsComplete(s1) THEN PageResult(s1, "complete", loaded, FALSE)
    ELSE IF NeedsPreload(s1)
    THEN PageResult([preload_fields(s1, s1.row_idx)
                        EXCEPT !.last_loaded_idx = s1.row_idx],
                    "editing", loaded, TRUE)
    ELSE PageResult([s1 EXCEPT !.has_fields = TRUE], "editing", loaded, FALSE)

\* main() from the top down to the widgets; pd.read_excel raising ends the run
Page(sess, file) ==
    IF Parses(sess, file) /\ ~file.readable
    THEN PageResult(sess, "exception", FALSE, FALSE)
    ELSE PageLoaded(_ensure_df_loaded(sess, file), Parses(sess, file))

Count(b) == IF b THEN 1 ELSE 0

\* derived counts the calls of preload_fields during the run and its rerun
Ends(event, loaded, sess, screen, error, mailer, derived, advanced) ==
    [session |-> sess,
     run |-> RunRecord(event, screen, error, mailer, loaded, derived, advanced)]

\* advance_to_next_row() and the rerun it triggers (no button is clicked in
\* the rerun)
Advance(q, event, p, mailer) ==
    Ends(event, p.loaded, q.sess, q.screen, "none", mailer,
         Count(p.derived) + Count(q.derived), TRUE)

\* the mutant of AfterSend: a successful send stays on the row
AfterSendStaying(p, file, event, mailer) ==
    IF mailer.kind = "raise"
    THEN Ends(event, p.loaded, p.sess, "exception", "none", mailer, Count(p.derived), FALSE)
    ELSE Ends(event, p.loaded, p.sess, "editing",
              IF mailer.ok THEN "none" ELSE "Failed to send email",
              mailer, Count(p.derived), FALSE)

\* lines 296-311: the Mailer's outcome decides
AfterSend(p, file, event, mailer) ==
    IF mailer.kind = "raise"
    THEN Ends(event, p.loaded, p.sess, "exception", "none", mailer, Count(p.derived), FALSE)
    ELSE IF mailer.ok
    THEN Advance(Page(advance_to_next_row(p.sess), file), event, p, mailer)
    ELSE Ends(event, p.loaded, p.sess, "editing", "Failed to send email",
              mailer, Count(p.derived), FALSE)

\* line 298: subject=subj_val.strip() or _derive_subject_for_row(row)
SendSubject(sess) ==
    IF Strip(sess.subject) # <<>> THEN Strip(sess.subject)
    ELSE _derive_subject_for_row(sess.df[sess.row_idx + 1])

\* lines 289-315, p being what the run did before the buttons
Buttons(p, file, sender_email, event, env) ==
    IF p.screen # "editing"
    THEN Ends(event, p.loaded, p.sess, p.screen, "none", NoMailerCall,
              Count(p.derived), FALSE)
    ELSE IF event = "send"
    THEN IF ~ValidAddress(p.sess.to)
         THEN Ends(event, p.loaded, p.sess, "editing",
                   "Please provide a valid recipient email.",
                   NoMailerCall, Count(p.derived), FALSE)
         ELSE IF ~ValidAddress(sender_email)
         THEN Ends(event, p.loaded, p.sess, "editing",
                   "Please set a valid 'From' address in the sidebar.",
                   NoMailerCall, Count(p.derived), FALSE)
         ELSE AfterSend(p, file, event,
                        MailerCall(Strip(p.sess.to), SendSubject(p.sess),
                                   send_email(Strip(p.sess.to), SendSubject(p.sess),
                                              p.sess.body,
                                              Creds(sHost, TRUE, Strip(sender_email)),
                                              env)))
    ELSE IF event = "skip"
    THEN Advance(Page(advance_to_next_row(p.sess), file), event, p, NoMailerCall)
    ELSE Ends(event, p.loaded, p.sess, "editing", "none", NoMailerCall,
              Count(p.derived), FALSE)

\* one script run of main() for a user event, followed by the rerun that
\* advance_to_next_row asks for; event is "send", "skip" or anything else
main(sess, file, sender_email, event, env) ==
    Buttons(Page(sess, file), file, sender_email, event, env)

\* the rows of the uploaded sheets, by position modulo the kinds of row
SheetRow(i) ==
    CASE i % 3 = 1 -> [Email |-> StrCell(sAddrA), Subject |-> StrCell(Str1("A")),
                       Template |-> StrCell(sSubjectColon \o sSpB \o <<"\n">> \o sHi)]
      [] i % 3 = 2 -> [Email |-> StrCell(sBad), Subject |-> NanCell,
                       Template |-> StrCell(sSubjectColon \o sSpB \o <<"\n">> \o sHi)]
      [] OTHER -> [Email |-> NanCell, Subject |-> AbsentCell,
                   Template |-> StrCell(sHi)]

Sheet(n) == [i \in 1..n |-> SheetRow(i)]

\* uploads: a sheet of every length up to MaxSheetRows, another sheet under
\* the name of the longest one, and a file read_excel cannot read
RowFiles ==
    {File("leads.xlsx", Sheet(MaxSheetRows)), File("leads.xlsx", Sheet(1)),
     BrokenFile("broken.xlsx")}
        \cup {File("short.xlsx", Sheet(n)) : n \in 0..(MaxSheetRows - 1)}

SenderInputs == {sEmpty, sBad, sSender}
ToEdits == {sEmpty, sAddrC, sAddrSplit}
SubjectEdits == {sEmpty, Str1("Z")}
BodyEdits == {Str1("e")}
\* per send click: all goes well, login is refused, the resume is gone
RowEnvs == {Env("present", 0), Env("present", 5), Env("absent", 0)}

\* the row's form (text inputs and buttons) is on the page
FormShown == run.screen = "editing"

\* the row the form showed when the button was clicked: row 0 of a sheet
\* parsed in this run, the row under the cursor otherwise
RowOnForm(m) == IF m.run.loaded THEN 0 ELSE session.row_idx

Becomes(m, file, sender_email) ==
    /\ session' = m.session
    /\ run' = m.run
    /\ uploader' = file
    /\ sidebar' = sender_email
    /\ last_sent' = IF m.run.mailer.called /\ m.run.mailer.ok
                    THEN (IF ~m.run.loaded /\ last_sent > RowOnForm(m)
                          THEN last_sent ELSE RowOnForm(m))
                    ELSE IF m.run.loaded THEN -1 ELSE last_sent
    /\ UNCHANGED <<call, bulkVars>>

Step(sess, file, sender_email, event, env) ==
    \E m \in {main(sess, file, sender_email, event, env)} :
        Becomes(m, file, sender_email)

Upload == \E f \in RowFiles : Step(session, f, sidebar, "upload", Env("present", 0))

RemoveFile ==
    /\ uploader.present
    /\ Step(session, NoFile, sidebar, "remove", Env("present", 0))

EditSender ==
    \E v \in SenderInputs : Step(session, uploader, v, "edit sender", Env("present", 0))

EditTo ==
    /\ FormShown
    /\ \E v \in ToEdits :
           Step([session EXCEPT !.to = v], uploader, sidebar, "edit",
                Env("present", 0))

EditSubject ==
    /\ FormShown
    /\ \E v \in SubjectEdits :
           Step([session EXCEPT !.subject = v], uploader, sidebar, "edit",
                Env("present", 0))

EditBody ==
    /\ FormShown
    /\ \E v \in BodyEdits :
           Step([session EXCEPT !.body = v], uploader, sidebar, "edit",
                Env("present", 0))

\* a redraw with nothing changed (any other widget of the page)
Redraw == Step(session, uploader, sidebar, "redraw", Env("present", 0))

\* clicks are offered whatever the page shows: main() decides whether the
\* button is reached
ClickSend == \E env \in RowEnvs : Step(session, uploader, sidebar, "send", env)

ClickSkip == Step(session, uploader, sidebar, "skip", Env("present", 0))

(***************************************************************************)
(* Bulk application (src/streamlit_app2.py)                                *)
(***************************************************************************)
sHunter1 == <<"h", "u", "n", "t", "e", "r", "1">>
sHunter2 == <<"h", "u", "n", "t", "e", "r", "2">>

\* the SMTP_* values of st.secrets / the environment; port is what
\* int(SMTP_PORT) gives, 587 standing for unset or unparsable as well
Config(host, port, user, pass) ==
    [SMTP_HOST |-> host, SMTP_PORT |-> port, SMTP_USER |-> user,
     SMTP_PASS |-> pass]

load_credentials_from_env(cfg) ==
    [smtp_host |-> cfg.SMTP_HOST, smtp_port |-> cfg.SMTP_PORT,
     smtp_user |-> cfg.SMTP_USER, smtp_pass |-> cfg.SMTP_PASS,
     sender_email |-> sEmpty, use_starttls |-> TRUE]

\* the mutant of StripOr: the configured value wins over what was entered
StripOrDefaultFirst(x, default) == IF default # <<>> THEN default ELSE Strip(x)

\* x.strip() or default
StripOr(x, default) == IF Strip(x) # <<>> THEN Strip(x) ELSE default

\* lines 391-396: the credential set of this click
ResolveCreds(w, default_creds) ==
    [sender_email |-> Strip(w.sender_email_input),
     smtp_host |-> StripOr(w.smtp_host_input, default_creds.smtp_host),
     smtp_port |-> IF w.smtp_port_input # 0 THEN w.smtp_port_input
                   ELSE default_creds.smtp_port,
     use_starttls |-> w.use_starttls_input,
     smtp_user |-> StripOr(w.smtp_user_input, default_creds.smtp_user),
     smtp_pass |-> StripOr(w.smtp_pass_input, default_creds.smtp_pass)]

NoBulkSession == [has_df |-> FALSE, df |-> <<>>, uploaded_filename |-> ""]

NoResult ==
    [kind |-> "none", success_count |-> 0, failure_count |-> 0,
     errors |-> <<>>, log |-> <<>>, visited |-> 0]

NoJob == [send_at |-> 0, delay |-> 0, started |-> 0, df |-> <<>>,
          email_column |-> "", subject |-> sEmpty, body |-> sEmpty,
          creds |-> Creds(sEmpty, TRUE, sEmpty)]

\* the widgets filled in so that every validation passes
GoodWidgets(password, mode, send_at) ==
    [sender_email_input |-> sSender, smtp_host_input |-> sHost,
     smtp_port_input |-> 25, use_starttls_input |-> TRUE,
     smtp_user_input |-> sUser, smtp_pass_input |-> sPass,
     subject |-> <<" ">> \o sSubj, body |-> sBody,
     outreach_password |-> password, send_mode |-> mode, send_at |-> send_at]

\* the widgets as a run that is not a click of the button finds them
NoWidgets == GoodWidgets(sEmpty, "Send now", 0)

\* what one script run did: the event, the widgets' values, where the run
\* ended, the error shown, the Bulk Dispatcher's result (kind "none" when it
\* was not called), the worker spawned (spawned = FALSE: none)
BulkRunRecord(event, w, screen, error, result, spawned, job) ==
    [event |-> event, w |-> w, screen |-> screen,
     error |-> error, result |-> result, spawned |-> spawned, job |-> job]

NoBulkRun == BulkRunRecord("start", NoWidgets, "none", "none", NoResult, FALSE, NoJob)

BulkEnds(sess, clock, event, w, screen, error, result, spawned, job) ==
    [session |-> sess, now |-> clock,
     run |-> BulkRunRecord(event, w, screen, error, result, spawned, job)]

Blocked(sess, clock, w, error) ==
    BulkEnds(sess, clock, "click", w, "form", error,
             NoResult, FALSE, NoJob)

\* lines 437-455
SendNow(sess, clock, w, result) ==
    BulkEnds(sess, clock, "click", w,
             IF result.kind = "raise" THEN "exception" ELSE "form",
             "none", result, FALSE, NoJob)

Max(a, b) == IF a >= b THEN a ELSE b

\* schedule_bulk_email_send: the delay is taken from a second reading of the
\* clock (now2), and the thread is started
schedule_bulk_email_send(send_at, df, email_column, subject, body, creds, now2) ==
    [send_at |-> send_at, delay |-> Max(send_at - now2, 0), started |-> now2,
     df |-> df, email_column |-> email_column, subject |-> subject,
     body |-> body, creds |-> creds]

\* lines 457-483
Schedule(sess, clock, w, creds, lag) ==
    IF w.send_at <= clock
    THEN Blocked(sess, clock, w, "Scheduled time must be in the future.")
    ELSE BulkEnds(sess, clock + lag, "click", w, "form",
                  "none", NoResult, TRUE,
                  schedule_bulk_email_send(w.send_at, sess.df, "Email",
                                           Strip(w.subject), w.body, creds,
                                           clock + lag))

\* the mutant of PasswordMatches: an empty entry passes
PasswordMatchesOrEmpty(entered, secret) == entered = secret \/ entered = <<>>

\* line 432: not (outreach_password != OUTREACH_PASSWORD)
PasswordMatches(entered, secret) == entered = secret

\* the mutant of Locked: the app never locks itself
LockedNever(secret) == FALSE

\* line 247: not OUTREACH_PASSWORD
Locked(secret) == secret = <<>>

\* lines 398-429: the first validation that fails, "none" when all pass
ValidationError(creds, w) ==
    IF ~ValidAddress(creds.sender_email)
    THEN "Please set a valid 'From' address in the sidebar."
    ELSE IF creds.smtp_host = <<>>
    THEN "Please provide an SMTP host (or set SMTP_HOST in secrets)."
    ELSE IF creds.smtp_port <= 0
    THEN "Please provide a valid SMTP port."
    ELSE IF creds.smtp_user = <<>>
    THEN "Please provide an SMTP username or set SMTP_USER in secrets."
    ELSE IF creds.smtp_pass = <<>>
    THEN "Please provide an SMTP password or set SMTP_PASS in secrets."
    ELSE IF Strip(w.subject) = <<>>
    THEN "Please provide an email subject."
    ELSE IF Strip(w.body) = <<>>
    THEN "Please provide an email body."
    ELSE "none"

IncorrectPassword == "Incorrect outreach password. Emails were not sent."

\* lines 390-483: the button was clicked on the form of a non-empty sheet
Clicked(sess, secret, clock, w, creds, lag, envs) ==
    IF ValidationError(creds, w) # "none"
    THEN Blocked(sess, clock, w, ValidationError(creds, w))
    ELSE IF ~PasswordMatches(w.outreach_password, secret)
    THEN Blocked(sess, clock, w, IncorrectPassword)
    ELSE IF w.send_mode = "Send now"
    THEN SendNow(sess, clock, w,
                 send_bulk_emails(sess.df, "Email", Strip(w.subject), w.body,
                                  creds, envs))
    ELSE Schedule(sess, clock, w, creds, lag)

\* lines 313-326: a readable upload replaces the sheet of the session
LoadDf(sess, file) ==
    IF file.present
    THEN [has_df |-> TRUE, df |-> file.df, uploaded_filename |-> file.name]
    ELSE sess

Quiet(sess, clock, event, w, screen, error) ==
    BulkEnds(sess, clock, event, w, screen, error,
             NoResult, FALSE, NoJob)

\* lines 328-390, s1 being the session state after the upload was read
FormPage(s1, secret, default_creds, clock, event, w, lag, envs) ==
    IF ~s1.has_df THEN Quiet(s1, clock, event, w, "idle", "none")
    ELSE IF Len(s1.df) = 0 THEN Quiet(s1, clock, event, w, "empty", "none")
    ELSE IF event # "click" THEN Quiet(s1, clock, event, w, "form", "none")
    ELSE Clicked(s1, secret, clock, w, ResolveCreds(w, default_creds), lag, envs)

\* one script run of main(); event "click" is the press of "Create and send
\* emails", w holds the widgets' values, lag the time that passes before
\* schedule_bulk_email_send reads the clock, envs the outside world per row
main2(sess, file, secret, cfg, clock, event, w, lag, envs) ==
    IF Locked(secret)
    THEN Quiet(sess, clock, event, w, "locked",
               "The app is locked until you set an OUTREACH_PASSWORD")
    ELSE IF file.present /\ ~file.readable
    THEN Quiet(sess, clock, event, w, "unreadable", "Could not read file")
    ELSE FormPage(LoadDf(sess, file), secret, load_credentials_from_env(cfg),
                  clock, event, w, lag, envs)

\* the uploads of the bulk app
BulkFiles ==
    {File("leads.csv", <<[Email |-> StrCell(sAddrA)], [Email |-> StrCell(sBad)],
                         [Email |-> StrCell(<<" ">> \o sAddrC \o <<" ">>)]>>),
     File("odd.csv", <<[Email |-> StrCell(sAddrSplit)], [Email |-> NanCell]>>),
     File("empty.csv", <<>>),
     BrokenFile("broken.xlsx")}

\* the same with one widget left empty (the port: left at 0) or mistyped
WidgetChoices(password, mode, send_at) ==
    LET w == GoodWidgets(password, mode, send_at)
    IN {w,
        [w EXCEPT !.sender_email_input = sEmpty],
        [w EXCEPT !.sender_email_input = sBad],
        [w EXCEPT !.smtp_host_input = sEmpty],
        [w EXCEPT !.smtp_port_input = 0],
        [w EXCEPT !.smtp_user_input = sEmpty],
        [w EXCEPT !.smtp_pass_input = sEmpty],
        [w EXCEPT !.subject = Str1(" ")],
        [w EXCEPT !.body = sEmpty]}

Passwords == {sEmpty, sHunter1, sHunter2}
Configs == {Config(sEmpty, 587, sEmpty, sEmpty), Config(sHost, 0, sUser, sPass)}
Lags == {0, 2}
NoEnvs == <<>>

BulkBecomes(m, file) ==
    /\ bulk_session' = m.session
    /\ now' = m.now
    /\ bulk_run' = m.run
    /\ bulk_uploader' = file
    /\ jobs' = IF m.run.spawned THEN Append(jobs, m.run.job) ELSE jobs
    /\ UNCHANGED <<call, rowVars, OUTREACH_PASSWORD, config>>

BulkStep2(file, event, w, lag, envs) ==
    \E m \in {main2(bulk_session, file, OUTREACH_PASSWORD, config, now,
                     event, w, lag, envs)} :
        BulkBecomes(m, file)

BulkUpload == \E f \in BulkFiles : BulkStep2(f, "upload", NoWidgets, 0, NoEnvs)

BulkRemoveFile ==
    /\ bulk_uploader.present
    /\ BulkStep2(NoFile, "remove", NoWidgets, 0, NoEnvs)

\* the click gets as far as the send or the scheduling: only then are the
\* outside world, the chosen time and the lag read
Dispatches(w) ==
    /\ ~Locked(OUTREACH_PASSWORD)
    /\ ~(bulk_uploader.present /\ ~bulk_uploader.readable)
    /\ bulk_session.has_df
    /\ Len(bulk_session.df) > 0
    /\ ValidationError(ResolveCreds(w, load_credentials_from_env(config)), w)
           = "none"
    /\ PasswordMatches(w.outreach_password, OUTREACH_PASSWORD)

\* the outside world of one row of a batch the app sends
AppEnvs == {Env("present", 0), Env("absent", 0)}

WorldsFor(w) ==
    IF Dispatches(w) THEN [1..Len(bulk_session.df) -> AppEnvs] ELSE {NoEnvs}

TimesFor(w) == IF Dispatches(w) THEN 0..MaxTime ELSE {0}

LagsFor(w) == IF Dispatches(w) THEN {l \in Lags : now + l <= MaxTime} ELSE {0}

\* a click of "Create and send emails" with "Send now" chosen; it is offered
\* whatever the page shows
ClickSendNow ==
    \E pw \in Passwords :
        \E w \in WidgetChoices(pw, "Send now", 0) :
            \E envs \in WorldsFor(w) :
                BulkStep2(bulk_uploader, "click", w, 0, envs)

\* the same click with "Schedule for later" chosen and every check passed
\* (a click that is blocked never reads the mode: see ClickSendNow)
ClickSchedule ==
    /\ Len(jobs) < MaxJobs
    /\ \E pw \in Passwords :
           \E w \in WidgetChoices(pw, "Schedule for later", 0) :
               /\ Dispatches(w)
               /\ \E at \in TimesFor(w), lag \in LagsFor(w) :
                      BulkStep2(bulk_uploader, "click",
                                [w EXCEPT !.send_at = at], lag, NoEnvs)

\* time passes
Tick ==
    /\ now < MaxTime
    /\ now' = now + 1
    /\ bulk_run' = BulkRunRecord("tick", NoWidgets, "none", "none", NoResult,
                                 FALSE, NoJob)
    /\ UNCHANGED <<call, rowVars, OUTREACH_PASSWORD, config, bulk_session,
                   bulk_uploader, jobs>>

RemoveAt(q, i) == SubSeq(q, 1, i - 1) \o SubSeq(q, i + 1, Len(q))

\* the mutant of worker: the sheet is read from the session when the
\* thread wakes, not taken from the arguments the thread was started with
worker_reading_session(job, sess, envs) ==
    send_bulk_emails(sess.df, job.email_column, job.subject, job.body,
                     job.creds, [i \in 1..Len(sess.df) |-> Env("present", 0)])

\* worker() after its sleep: the batch is sent with the arguments of the
\* enclosing call; sess is the session state at that moment, which the
\* closure does not read
worker(job, sess, envs) ==
    send_bulk_emails(job.df, job.email_column, job.subject, job.body,
                     job.creds, envs)

\* worker(): the sleep is over, the batch is sent, the summary is printed
\* (not when send_bulk_emails raised: the thread dies with the traceback)
JobRun ==
    \E i \in 1..Len(jobs) :
        /\ now >= jobs[i].started + jobs[i].delay
        /\ \E envs \in [1..Len(jobs[i].df) -> AppEnvs] :
               bulk_run' = BulkRunRecord("job", NoWidgets, "none", "none",
                               worker(jobs[i], bulk_session, envs),
                               FALSE, jobs[i])
        /\ jobs' = RemoveAt(jobs, i)
        /\ UNCHANGED <<call, rowVars, OUTREACH_PASSWORD, config, bulk_session,
                       bulk_uploader, now>>

(***************************************************************************)
(* The credential set of a send attempt, in both applications              *)
(***************************************************************************)
\* what the user did to one sidebar widget since the page was opened
Untouched == [typed |-> FALSE, text |-> sEmpty, number |-> 0]
TypedText(v) == [typed |-> TRUE, text |-> v, number |-> 0]
TypedNumber(n) == [typed |-> TRUE, text |-> sEmpty, number |-> n]

\* st.text_input(value=...) and st.number_input(value=...): the widget
\* returns what the user entered, and its value argument while untouched
text_input(value, entered) == IF entered.typed THEN entered.text ELSE value
number_input(value, entered) == IF entered.typed THEN entered.number ELSE value

\* the SMTP_* and SENDER_EMAIL values of the environment
Environ(host, port, user, pass, sender) ==
    [SMTP_HOST |-> host, SMTP_PORT |-> port, SMTP_USER |-> user,
     SMTP_PASS |-> pass, SENDER_EMAIL |-> sender]

\* load_credentials_from_env of the row-by-row application
row_load_credentials_from_env(cfg) ==
    [smtp_host |-> cfg.SMTP_HOST, smtp_port |-> cfg.SMTP_PORT,
     smtp_user |-> cfg.SMTP_USER, smtp_pass |-> cfg.SMTP_PASS,
     sender_email |-> cfg.SENDER_EMAIL, use_starttls |-> TRUE]

\* the sidebar of the row-by-row application: every widget starts at the
\* configured value
row_sidebar(default_creds, entered) ==
    [smtp_host |-> text_input(default_creds.smtp_host, entered.smtp_host),
     smtp_port |-> number_input(default_creds.smtp_port, entered.smtp_port),
     use_starttls |-> default_creds.use_starttls,
     smtp_user |-> text_input(default_creds.smtp_user, entered.smtp_user),
     smtp_pass |-> text_input(default_creds.smtp_pass, entered.smtp_pass),
     sender_email |-> text_input(default_creds.sender_email, entered.sender_email)]

\* the keyword arguments of the send_email call of the row-by-row application
row_creds(sb) ==
    [smtp_host |-> Strip(sb.smtp_host), smtp_port |-> sb.smtp_port,
     smtp_user |-> Strip(sb.smtp_user), smtp_pass |-> Strip(sb.smtp_pass),
     sender_email |-> Strip(sb.sender_email), use_starttls |-> sb.use_starttls]

\* the sidebar of the bulk application: the text widgets start empty, the
\* port at the configured one, or at 587 when that is 0
bulk_sidebar(default_creds, entered) ==
    [smtp_host_input |-> text_input(sEmpty, entered.smtp_host),
     smtp_port_input |-> number_input(IF default_creds.smtp_port # 0
                                      THEN default_creds.smtp_port ELSE 587,
                                      entered.smtp_port),
     use_starttls_input |-> default_creds.use_starttls,
     smtp_user_input |-> text_input(sEmpty, entered.smtp_user),
     smtp_pass_input |-> text_input(sEmpty, entered.smtp_pass),
     sender_email_input |-> text_input(sEmpty, entered.sender_email)]

\* the widgets of a click, the sidebar being sb
WithSidebar(w, sb) ==
    [w EXCEPT !.smtp_host_input = sb.smtp_host_input,
              !.smtp_port_input = sb.smtp_port_input,
              !.use_starttls_input = sb.use_starttls_input,
              !.smtp_user_input = sb.smtp_user_input,
              !.smtp_pass_input = sb.smtp_pass_input,
              !.sender_email_input = sb.sender_email_input]

sMail == <<"g", "@", "x">>
sTyped == <<"t">>

Environs == {Environ(sEmpty, 587, sEmpty, sEmpty, sEmpty),
             Environ(sHost, 465, sUser, sPass, sSender),
             Environ(sHost, 0, sUser, sPass, sEmpty)}

TextEntries == {Untouched, TypedText(sEmpty), TypedText(<<" ">> \o sTyped)}
PortEntries == {Untouched, TypedNumber(0), TypedNumber(25)}
SenderEntries == {Untouched, TypedText(sEmpty), TypedText(sMail \o <<" ">>)}

Entries ==
    [smtp_host : TextEntries, smtp_port : PortEntries,
     smtp_user : {Untouched, TypedText(sTyped)},
     smtp_pass : {Untouched, TypedText(sTyped)},
     sender_email : SenderEntries]

\* the row-by-row application reaches its send_email call: the "From
\* address" widget holds an address
CallResolveRow ==
    /\ call = NoCall
    /\ \E cfg \in Environs, entered \in Entries :
           \E sb \in {row_sidebar(row_load_credentials_from_env(cfg), entered)} :
               /\ ValidAddress(sb.sender_email)
               /\ call' = [fn |-> "resolve", app |-> "row", cfg |-> cfg,
                           entered |-> entered, sidebar |-> sb,
                           default_creds |-> row_load_credentials_from_env(cfg),
                           result |-> row_creds(sb)]
    /\ UNCHANGED <<rowVars, bulkVars>>

\* the bulk application reaches a send: the click passes every validation
CallResolveBulk ==
    /\ call = NoCall
    /\ \E cfg \in Environs, entered \in Entries :
           \E sb \in {bulk_sidebar(load_credentials_from_env(cfg), entered)} :
               \E w \in {WithSidebar(GoodWidgets(sHunter2, "Send now", 0), sb)} :
                   \E creds \in {ResolveCreds(w, load_credentials_from_env(cfg))} :
                       /\ ValidationError(creds, w) = "none"
                       /\ call' = [fn |-> "resolve", app |-> "bulk", cfg |-> cfg,
                                   entered |-> entered,
                                   sidebar |-> [smtp_host |-> sb.smtp_host_input,
                                                smtp_port |-> sb.smtp_port_input,
                                                use_starttls |-> sb.use_starttls_input,
                                                smtp_user |-> sb.smtp_user_input,
                                                smtp_pass |-> sb.smtp_pass_input,
                                                sender_email |-> sb.sender_email_input],
                                   default_creds |-> load_credentials_from_env(cfg),
                                   result |-> creds]
    /\ UNCHANGED <<rowVars, bulkVars>>

BulkIdle ==
    /\ OUTREACH_PASSWORD = sEmpty
    /\ config = Config(sEmpty, 587, sEmpty, sEmpty)
    /\ bulk_session = NoBulkSession
    /\ bulk_uploader = NoFile
    /\ now = 0
    /\ jobs = <<>>
    /\ bulk_run = NoBulkRun

RowIdle ==
    /\ session = NoSession
    /\ uploader = NoFile
    /\ sidebar = sEmpty
    /\ run = NoRun
    /\ last_sent = -1

InitCalls == call = NoCall /\ RowIdle /\ BulkIdle

NextCalls ==
    \/ CallParseTemplate
    \/ CallDeriveSubject
    \/ CallSendEmail
    \/ CallSendBulk
    \/ Return

SpecCalls == InitCalls /\ [][NextCalls]_vars

NextCreds ==
    \/ CallResolveRow
    \/ CallResolveBulk
    \/ Return

SpecCreds == InitCalls /\ [][NextCreds]_vars

InitRowApp == call = NoCall /\ RowIdle /\ BulkIdle

NextRowApp ==
    \/ Upload
    \/ RemoveFile
    \/ EditSender
    \/ EditTo
    \/ EditSubject
    \/ EditBody
    \/ Redraw
    \/ ClickSend
    \/ ClickSkip

SpecRowApp == InitRowApp /\ [][NextRowApp]_vars

InitBulkApp ==
    /\ call = NoCall
    /\ RowIdle
    /\ OUTREACH_PASSWORD \in {sEmpty, sHunter2}
    /\ config \in Configs
    /\ bulk_session = NoBulkSession
    /\ bulk_uploader = NoFile
    /\ now = 0
    /\ jobs = <<>>
    /\ bulk_run = NoBulkRun

NextBulkApp ==
    \/ BulkUpload
    \/ BulkRemoveFile
    \/ ClickSendNow
    \/ ClickSchedule
    \/ Tick
    \/ JobRun

SpecBulkApp == InitBulkApp /\ [][NextBulkApp]_vars

\* The bulk application used by one who knows the secret: the clicks carry
\* the right password, "Send now" with each of the widget choices and
\* "Schedule for later" with the valid one.
ClickSendNowKnowing ==
    \E w \in WidgetChoices(OUTREACH_PASSWORD, "Send now", 0) :
        \E envs \in {e \in WorldsFor(w) : \A i, j \in DOMAIN e : e[i] = e[j]} :
            BulkStep2(bulk_uploader, "click", w, 0, envs)

ClickScheduleKnowing ==
    /\ Len(jobs) < MaxJobs
    /\ \E w \in {GoodWidgets(OUTREACH_PASSWORD, "Schedule for later", 0)} :
           /\ Dispatches(w)
           /\ \E at \in TimesFor(w), lag \in LagsFor(w) :
                  BulkStep2(bulk_uploader, "click", [w EXCEPT !.send_at = at],
                            lag, NoEnvs)

InitJobs ==
    /\ InitBulkApp
    /\ OUTREACH_PASSWORD = sHunter2
    /\ config = Config(sHost, 0, sUser, sPass)

NextJobs ==
    \/ BulkUpload
    \/ BulkRemoveFile
    \/ ClickSendNowKnowing
    \/ ClickScheduleKnowing
    \/ Tick
    \/ JobRun

SpecJobs == InitJobs /\ [][NextJobs]_vars

(***************************************************************************)
(* Claims about the functions (checked under SpecCalls)                    *)
(***************************************************************************)
IsBulkCall == call.fn = "send_bulk_emails"
InvalidRows(df) == {i \in 1..Len(df) : InvalidEmail(ToEmail(df[i], "Email"))}
ErrorsOfRow(errors, i) == {k \in 1..Len(errors) : errors[k].row = i}
Increasing(rowsOf) ==
    \A j, k \in 1..Len(rowsOf) : j < k => rowsOf[j].row < rowsOf[k].row

\* C3: for every row whose email value, as text and trimmed, is empty or has
\* no "@", send_bulk_emails records exactly one failure, an "invalid email"
\* error naming the row's 1-based position, makes no Mailer call for that row,
\* and goes on through the rows after it.
C3_InvalidRowsRecorded ==
    IsBulkCall =>
        \A i \in InvalidRows(call.df) :
            /\ Cardinality(ErrorsOfRow(call.result.errors, i)) = 1
            /\ \A k \in ErrorsOfRow(call.result.errors, i) :
                   /\ call.result.errors[k].kind = "invalid email"
                   /\ call.result.errors[k].addr = ToEmail(call.df[i], "Email")
            /\ \A k \in 1..Len(call.result.log) : call.result.log[k].row # i
            /\ call.result.visited = Len(call.df)

\* the aggregation of C4, for a run that came to its return statement
Aggregated(df, result) ==
    LET log == result.log
        errors == result.errors
        okCalls == {k \in 1..Len(log) : log[k].res.ok}
        failedCalls == {k \in 1..Len(log) : ~log[k].res.ok}
    IN /\ result.visited = Len(df)
       /\ {log[k].row : k \in 1..Len(log)} = (1..Len(df)) \ InvalidRows(df)
       /\ Increasing(log)
       /\ result.success_count = Cardinality(okCalls)
       /\ result.failure_count
              = Cardinality(InvalidRows(df)) + Cardinality(failedCalls)
       /\ Len(errors) = result.failure_count
       /\ Increasing(errors)
       /\ \A k \in failedCalls :
              \E e \in 1..Len(errors) :
                  /\ errors[e].row = log[k].row
                  /\ errors[e].addr = log[k].to
                  /\ errors[e].msg = log[k].res.msg

\* C4: send_bulk_emails visits every row once, in order, never stops early
\* and never raises; the success count is the number of rows whose Mailer call
\* succeeded, the failure count the number of invalid rows plus the number of
\* failed Mailer calls, and the error list has one entry per failure, in row
\* order, a Mailer failure's entry holding the address and the reason.
C4_NeverRaisesAndAggregates ==
    IsBulkCall =>
        /\ call.result.kind = "return"
        /\ Aggregated(call.df, call.result)

FirstNonEmpty(lines) ==
    IF \E i \in 1..Len(lines) : lines[i] # <<>>
    THEN CHOOSE i \in 1..Len(lines) :
             /\ lines[i] # <<>>
             /\ \A j \in 1..(i - 1) : lines[j] = <<>>
    ELSE 0

\* the Template Splitter as C9 words it
SplitterAsClaimed(t) ==
    LET lines == SplitLines(t)
        f == FirstNonEmpty(lines)
    IN IF f > 0 /\ StartsWith(Lower(lines[f]), Lower(sSubjectColon))
       THEN <<Strip(AfterFirst(lines[f], ":")),
              JoinNl(SubSeq(lines, SkipBlank(lines, f + 1), Len(lines)))>>
       ELSE <<sEmpty, t>>

\* C9: when the first non-empty line of the template is "Subject: <text>"
\* (any casing), the result is the trimmed text and the lines after it less
\* the blank lines right after the subject line; otherwise the result is an
\* empty subject and the whole input, unchanged, as the body.
C9_SplitterAsClaimed ==
    call.fn = "parse_template" =>
        call.result = SplitterAsClaimed(call.template)

\* C10: a call of send_email with the resume file absent returns the failure
\* "resume not found" without any SMTP operation, and a message is only ever
\* transmitted with the attachment added.
C10_AttachmentPrecondition ==
    call.fn = "send_email" =>
        /\ call.env.resume = "absent" =>
               /\ call.result.kind = "return"
               /\ ~call.result.ok
               /\ call.result.msg = ResumeNotFoundMsg
               /\ call.result.net = <<>>
        /\ call.result.transmitted => call.result.attached


\* the SMTP sessions a call opened
Connects(net) == {k \in 1..Len(net) : net[k] \in {"connect", "connect_ssl"}}

\* what C11 says of a call, apart from its coming to a return statement
OutcomeAsClaimed(creds, env, result) ==
    /\ (env.resume = "present" /\ env.failAt \in 1..(Len(Ops(creds)) + 1)) =>
           /\ ~result.ok
           /\ result.msg.tag = "exception"
    /\ result.ok =>
           /\ result.transmitted
           /\ env.failAt \notin 1..(Len(Ops(creds)) + 1)
    /\ Cardinality(Connects(result.net)) <= 1

\* C11: every call of send_email comes to a return statement, none lets an
\* exception out; an exception of the connection, the upgrade, the login or
\* the transmission gives the failure Outcome that holds its text; success is
\* returned only when send_message returned without raising; and a call opens
\* at most one SMTP session, without a second try.
C11_MailerOutcome ==
    call.fn = "send_email" =>
        /\ call.result.kind = "return"
        /\ OutcomeAsClaimed(call.creds, call.env, call.result)


(***************************************************************************)
(* Claims about the row-by-row application (checked under SpecRowApp)      *)
(***************************************************************************)
Cursor == session.row_idx
Rows == Len(session.df)
Fields == <<session.to, session.subject, session.body>>
RecipientError == "Please provide a valid recipient email."
SenderError == "Please set a valid 'From' address in the sidebar."

\* empty, or without an "@"
NoAddress(s) == \A i \in 1..Len(s) : s[i] # "@"

\* C5: a parse of an uploaded sheet puts the cursor at 0 (on the form of row
\* 0 when the sheet has rows); a skip on the form of row i moves the cursor to
\* exactly i + 1; the page is "complete" only when the cursor equals the
\* number of rows, and with the cursor there every run ends on the complete
\* page (or on the exception of an unreadable upload); the cursor never
\* passes the number of rows; and once the cursor is there no send, skip or
\* other event short of a new sheet changes the session or calls the Mailer.
C5_DriverProgression ==
    [][/\ run'.loaded =>
              /\ Cursor' = 0
              /\ Rows' > 0 => run'.screen = "editing"
       /\ (run'.event = "skip" /\ FormShown) => Cursor' = Cursor + 1
       /\ run'.screen = "complete" => (Rows' > 0 /\ Cursor' = Rows')
       /\ (Rows' > 0 /\ Cursor' = Rows') => run'.screen \in {"complete", "exception"}
       /\ Cursor' <= Rows'
       /\ (Rows > 0 /\ Cursor = Rows /\ ~run'.loaded) =>
              /\ session' = session
              /\ ~run'.advanced
              /\ ~run'.mailer.called]_vars

\* three skips over the three-row sheet end on the complete page
C5_Witness ==
    /\ run.event = "skip"
    /\ run.screen = "complete"
    /\ Cursor = MaxSheetRows

\* C6: a send on the form of row i moves the cursor (to i + 1) exactly when
\* the Mailer was called and returned success; with an empty or "@"-less
\* recipient, or else an empty or "@"-less From address, the Mailer is not
\* called, that field's error is shown and the cursor stays; a failed Mailer
\* call leaves the cursor; a skip moves the cursor on without a Mailer call.
C6_SendGating ==
    [][/\ (run'.event = "send" /\ FormShown) =>
              /\ run'.advanced <=> (run'.mailer.called /\ run'.mailer.ok)
              /\ Cursor' = Cursor + Count(run'.advanced)
              /\ NoAddress(session.to) =>
                     /\ ~run'.mailer.called
                     /\ run'.error = RecipientError
              /\ (~NoAddress(session.to) /\ NoAddress(sidebar)) =>
                     /\ ~run'.mailer.called
                     /\ run'.error = SenderError
              /\ (~NoAddress(session.to) /\ ~NoAddress(sidebar)) =>
                     run'.mailer.called
       /\ (run'.event = "skip" /\ FormShown) =>
              /\ ~run'.mailer.called
              /\ run'.advanced
              /\ Cursor' = Cursor + 1]_vars

\* a send refused by the Mailer on a row reached by an earlier advance
C6_Witness ==
    /\ run.event = "send"
    /\ run.mailer.called
    /\ ~run.mailer.ok
    /\ run.error = "Failed to send email"
    /\ Cursor = 1

CursorChanged == run'.loaded \/ Cursor' # Cursor

\* C7: preload_fields runs once in a step that changes the cursor (an advance
\* or the reset to 0 of a new upload) onto a row, and not at all in any other
\* step; a step that neither changes the cursor nor is an edit of a field
\* (a redraw, a send that fails or is refused, any other event) leaves the
\* recipient, subject and body as the user has them.
C7_EditPreservation ==
    [][/\ run'.derived
              = Count(CursorChanged /\ session'.has_df /\ Cursor' < Rows')
       /\ (~CursorChanged /\ run'.event # "edit") => Fields' = Fields]_vars

\* the user's recipient (not the row's) is still in the form after a send
\* that the Mailer refused
C7_Witness ==
    /\ run.event = "send"
    /\ run.error = "Failed to send email"
    /\ run.derived = 0
    /\ session.to = sAddrC
    /\ session.subject = Str1("Z")

MailerSucceeded == run'.mailer.called /\ run'.mailer.ok

\* C15: between two parses of a sheet the cursor only grows, by exactly one
\* in a step that accepts a send or a skip and not at all in any other; a
\* step advances only for a skip or a send the Mailer reported sent; a row
\* the Mailer has sent for lies behind the cursor from then on, so that no
\* later send is for that row or for one before it.
C15_OneSendPerRow ==
    [][/\ ~run'.loaded =>
              /\ Cursor' = Cursor + Count(run'.advanced)
              /\ MailerSucceeded => last_sent < Cursor
       /\ run'.advanced =>
              /\ run'.event \in {"send", "skip"}
              /\ run'.event = "send" => MailerSucceeded
       /\ MailerSucceeded => last_sent' = (IF run'.loaded THEN 0 ELSE Cursor)
       /\ last_sent' < Cursor']_vars

\* C15 witness: rows 0 and 1 were sent one after the other
C15_Witness ==
    /\ run.event = "send"
    /\ run.mailer.called
    /\ run.mailer.ok
    /\ last_sent = 1
    /\ Cursor = 2

(***************************************************************************)
(* Claims about the bulk application (checked under SpecBulkApp)           *)
(***************************************************************************)
PastTime == "Scheduled time must be in the future."

\* the last step was a click of "Create and send emails" on the form
ClickedOnForm ==
    /\ bulk_run.event = "click"
    /\ bulk_run.screen \in {"form", "exception"}

Entered == bulk_run.w.outreach_password

\* what the validations of the other inputs say of the clicked form
Validation ==
    ValidationError(ResolveCreds(bulk_run.w, load_credentials_from_env(config)),
                    bulk_run.w)

DispatcherCalled == bulk_run.result.kind # "none"

\* C1: every click of "Create and send emails" with an entered password that
\* is not exactly the configured secret is blocked with the "incorrect
\* password" error, with no Mailer call, no row processed and no job
\* spawned; with the entered password equal to the secret and the other
\* inputs valid the action proceeds (or, the time chosen being past, says so).
C1_AccessGate ==
    ClickedOnForm =>
        /\ Entered # OUTREACH_PASSWORD =>
               /\ bulk_run.error = IncorrectPassword
               /\ ~DispatcherCalled
               /\ ~bulk_run.spawned
        /\ (Entered = OUTREACH_PASSWORD /\ Validation = "none") =>
               \/ DispatcherCalled
               \/ bulk_run.spawned
               \/ bulk_run.error = PastTime

\* C1 as amended: every click of "Create and send emails" with an entered
\* password that is not exactly the configured secret is blocked, with no
\* Mailer call, no row processed, no job spawned and the set of pending jobs
\* as it was; the error shown is the "incorrect password" error when the
\* other inputs pass the validations, and the error of the first validation
\* that fails otherwise.  With the entered password equal to the secret and
\* the other inputs valid, "Send now" calls the Bulk Dispatcher and "Schedule
\* for later" spawns one job when the chosen time is after the clock's, and
\* shows the past-time error without spawning when it is not.
C1_AccessGateAmended ==
    [][(bulk_run'.event = "click" /\ bulk_run'.screen \in {"form", "exception"}) =>
          /\ bulk_run'.w.outreach_password # OUTREACH_PASSWORD =>
                 /\ bulk_run'.error = IF Validation' = "none"
                                      THEN IncorrectPassword ELSE Validation'
                 /\ ~DispatcherCalled'
                 /\ ~bulk_run'.spawned
                 /\ jobs' = jobs
          /\ (bulk_run'.w.outreach_password = OUTREACH_PASSWORD
                  /\ Validation' = "none") =>
                 IF bulk_run'.w.send_mode = "Send now"
                 THEN /\ DispatcherCalled'
                      /\ ~bulk_run'.spawned
                      /\ jobs' = jobs
                 ELSE /\ ~DispatcherCalled'
                      /\ bulk_run'.spawned <=> bulk_run'.w.send_at > now
                      /\ bulk_run'.spawned => jobs' = Append(jobs, bulk_run'.job)
                      /\ ~bulk_run'.spawned =>
                             (bulk_run'.error = PastTime /\ jobs' = jobs)]_vars

\* secret "hunter2", "hunter1" entered on a form that is otherwise valid:
\* blocked with the "incorrect password" error
C1_Witness ==
    /\ ClickedOnForm
    /\ OUTREACH_PASSWORD = sHunter2
    /\ Entered = sHunter1
    /\ Validation = "none"
    /\ bulk_run.error = IncorrectPassword
    /\ ~DispatcherCalled

\* C2: with the configured secret empty or unset, no state of the bulk
\* application has a Bulk Dispatcher call, a scheduling call or a Mailer call
\* behind it, in the script or in a worker, whatever was entered: the last
\* step called no dispatcher, spawned nothing, was not a worker's run, and no
\* job is pending.
C2_FailClosed ==
    OUTREACH_PASSWORD = <<>> =>
        /\ ~DispatcherCalled
        /\ bulk_run.result.log = <<>>
        /\ ~bulk_run.spawned
        /\ bulk_run.event # "job"
        /\ jobs = <<>>

\* the secret is unset and a click arrives with every input valid and the
\* password left empty, as the secret is: the page is locked
C2_Witness ==
    /\ OUTREACH_PASSWORD = <<>>
    /\ bulk_run.event = "click"
    /\ Entered = OUTREACH_PASSWORD
    /\ Validation = "none"
    /\ bulk_run.screen = "locked"

\* the step is a worker's run of the job it was started with
JobRan == bulk_run'.event = "job"

\* what C12 says of a step, apart from the summary's being logged
ScheduledAsClaimed ==
    /\ bulk_run'.spawned =>
           /\ bulk_run'.job.delay
                  = IF bulk_run'.job.send_at > bulk_run'.job.started
                    THEN bulk_run'.job.send_at - bulk_run'.job.started ELSE 0
           /\ jobs' = Append(jobs, bulk_run'.job)
           /\ bulk_run'.result.kind = "none"
    /\ (bulk_run'.event = "click" /\ ~bulk_run'.spawned) => jobs' = jobs
    /\ JobRan =>
           /\ \E i \in 1..Len(jobs) :
                  /\ jobs[i] = bulk_run'.job
                  /\ jobs' = RemoveAt(jobs, i)
           /\ now >= bulk_run'.job.started + bulk_run'.job.delay
           /\ bulk_run'.result.kind # "none"

\* C12: a schedule call takes delay = max(send_at - now, 0) (0 for a time
\* that is past), starts one worker and returns without sending anything; the
\* worker calls the Bulk Dispatcher once, not before the delay is over, and
\* then logs the summary of a batch that went through all its rows.
C12_ScheduledDispatch ==
    [][/\ ScheduledAsClaimed
       /\ JobRan =>
              /\ bulk_run'.result.kind = "return"
              /\ bulk_run'.result.visited = Len(bulk_run'.job.df)]_vars


\* what a step may do to the worker threads that are waiting: nothing, or
\* start the one of this click, or let one of them run
PendingKept ==
    \/ jobs' = jobs
    \/ bulk_run'.spawned /\ jobs' = Append(jobs, bulk_run'.job)
    \/ JobRan /\ \E i \in 1..Len(jobs) :
                     /\ jobs[i] = bulk_run'.job
                     /\ jobs' = RemoveAt(jobs, i)

\* the thread started by a click holds the sheet, subject, body and
\* credentials of that click
CapturedAtClick ==
    bulk_run'.spawned =>
        /\ bulk_run'.job.df = bulk_session'.df
        /\ bulk_run'.job.email_column = "Email"
        /\ bulk_run'.job.subject = Strip(bulk_run'.w.subject)
        /\ bulk_run'.job.body = bulk_run'.w.body
        /\ bulk_run'.job.creds =
               ResolveCreds(bulk_run'.w, load_credentials_from_env(config))

\* every address a batch tried or rejected is the one of that row of the
\* sheet the thread holds, and a batch that returned went through all of it
SentFromCaptured(job, result) ==
    /\ result.visited <= Len(job.df)
    /\ result.kind = "return" => result.visited = Len(job.df)
    /\ \A k \in 1..Len(result.log) :
           /\ result.log[k].row \in 1..Len(job.df)
           /\ result.log[k].to =
                  ToEmail(job.df[result.log[k].row], job.email_column)
    /\ \A k \in 1..Len(result.errors) :
           /\ result.errors[k].row \in 1..Len(job.df)
           /\ result.errors[k].addr =
                  ToEmail(job.df[result.errors[k].row], job.email_column)

IsResolve == call.fn = "resolve"

\* the entered text when it is not blank, the configured value otherwise
EnteredOr(entered, default) ==
    IF entered.typed /\ Strip(entered.text) # <<>>
    THEN Strip(entered.text) ELSE default

\* C14: the credential set of a send attempt takes host, port, username and
\* password from what the user entered when that is not empty (blank, or 0
\* for the port) and from the configured default otherwise, and the sender
\* address is what the user entered, never a configured value.
C14_CredentialResolution ==
    IsResolve =>
        /\ call.result.smtp_host =
               EnteredOr(call.entered.smtp_host, call.cfg.SMTP_HOST)
        /\ call.result.smtp_user =
               EnteredOr(call.entered.smtp_user, call.cfg.SMTP_USER)
        /\ call.result.smtp_pass =
               EnteredOr(call.entered.smtp_pass, call.cfg.SMTP_PASS)
        /\ call.result.smtp_port =
               IF call.entered.smtp_port.typed /\ call.entered.smtp_port.number # 0
               THEN call.entered.smtp_port.number ELSE call.cfg.SMTP_PORT
        /\ call.result.sender_email = EnteredOr(call.entered.sender_email, sEmpty)

\* the trimmed value of a widget when that is not empty, else the default
TrimmedOr(value, default) == IF Strip(value) # <<>> THEN Strip(value) ELSE default

\* the bulk application: the text widgets start empty and the port widget at
\* the configured port (587 for 0); a blank widget, or a port widget at 0,
\* gives way to the configured value, and the sender is the trimmed widget
BulkResolution ==
    /\ call.sidebar.smtp_host =
           IF call.entered.smtp_host.typed
           THEN call.entered.smtp_host.text ELSE sEmpty
    /\ call.sidebar.sender_email =
           IF call.entered.sender_email.typed
           THEN call.entered.sender_email.text ELSE sEmpty
    /\ call.sidebar.smtp_port =
           IF call.entered.smtp_port.typed THEN call.entered.smtp_port.number
           ELSE IF call.cfg.SMTP_PORT # 0 THEN call.cfg.SMTP_PORT ELSE 587
    /\ call.result.smtp_host = TrimmedOr(call.sidebar.smtp_host, call.cfg.SMTP_HOST)
    /\ call.result.smtp_user = TrimmedOr(call.sidebar.smtp_user, call.cfg.SMTP_USER)
    /\ call.result.smtp_pass = TrimmedOr(call.sidebar.smtp_pass, call.cfg.SMTP_PASS)
    /\ call.result.smtp_port =
           IF call.sidebar.smtp_port # 0 THEN call.sidebar.smtp_port
           ELSE call.cfg.SMTP_PORT
    /\ call.result.sender_email = Strip(call.sidebar.sender_email)
    /\ call.result.sender_email = EnteredOr(call.entered.sender_email, sEmpty)

\* the row-by-row application: every widget, "From address" included,
\* starts at the configured value, and the credential set is the widgets
\* trimmed, an emptied one staying empty
RowResolution ==
    /\ call.sidebar.smtp_host =
           IF call.entered.smtp_host.typed
           THEN call.entered.smtp_host.text ELSE call.cfg.SMTP_HOST
    /\ call.sidebar.sender_email =
           IF call.entered.sender_email.typed
           THEN call.entered.sender_email.text ELSE call.cfg.SENDER_EMAIL
    /\ call.sidebar.smtp_port =
           IF call.entered.smtp_port.typed
           THEN call.entered.smtp_port.number ELSE call.cfg.SMTP_PORT
    /\ call.result.smtp_host = Strip(call.sidebar.smtp_host)
    /\ call.result.smtp_user = Strip(call.sidebar.smtp_user)
    /\ call.result.smtp_pass = Strip(call.sidebar.smtp_pass)
    /\ call.result.smtp_port = call.sidebar.smtp_port
    /\ call.result.sender_email = Strip(call.sidebar.sender_email)

\* C14 amended: in the bulk application host, username and password are the
\* trimmed widget when that is not empty and the configured value otherwise,
\* the port is the port widget unless it is 0, and the sender is the trimmed
\* "From address" widget, which never starts from configuration; in the
\* row-by-row application every field, the sender included, is the trimmed
\* widget, which starts at the configured value.
C14_CredentialResolutionAmended ==
    IsResolve =>
        /\ call.app = "bulk" => BulkResolution
        /\ call.app = "row" => RowResolution

\* C14 witness: a bulk send whose host fell back to the configured one while
\* the username entered was kept
C14_Witness ==
    /\ IsResolve
    /\ call.app = "bulk"
    /\ call.entered.smtp_host = TypedText(sEmpty)
    /\ call.cfg.SMTP_HOST = sHost
    /\ call.result.smtp_host = sHost
    /\ call.result.smtp_user = sTyped
    /\ call.result.sender_email = sMail

====
